---- MODULE Spec2Model ----
(***************************************************************************)
(* The simulated bridge ledger of                                          *)
(* protocol-units/bridge/shared/src/testing/blockchain.rs                  *)
(* (AbstractBlockchain), its event loop (Stream::poll_next, Future::poll), *)
(* the listener fan-out and the dispatch of the three transaction kinds to *)
(* the initiator and counterparty contracts.                               *)
(*                                                                         *)
(* The two contracts, the hasher and gen_unique_hash are modules of the    *)
(* repository that are not among the source files (blockchain.rs lines     *)
(* 20-23 only declare them); their operators below follow spec.md 4.2, 4.3 *)
(* and are marked as such where they are defined.                          *)
(***************************************************************************)
EXTENDS Integers, Sequences, FiniteSets, TLC

\* ------------------------------------------------------------------ bounds
\* Transactions the producers submit in one run.
MaxSends == 3
\* Calls of add_event_listener in one run.
MaxListeners == 2
\* Largest value the logical clock reaches.
MaxTime == 2
\* Producer handles (connection() clones) alive at once.
MaxConnections == 1
\* Bits of the logical clock: `time: u64` scaled down, so that its largest value
\* is within reach.
ClockBits == 3
BlockSize == 2
BuildingTime == 2
MaxCalls == 2

\* ------------------------------------------------------------------ inputs
Addresses == {"a", "b"}
\* Secret 1 is the preimage of every hash lock used below; secret 2 is a wrong one.
Secrets == {1, 2}
\* The amounts add_account funds an address with.
Fundings == {5}
\* Durations forward_time is called with.
Durations == {1}
\* The ids a CompleteBridgeTransfer / LockBridgeTransfer may name: the first
\* two values gen_unique_hash produces.
CallerIds == {1, 2}

\* hasher (not among the source files): the hash of a secret.  An injective
\* map on Secrets that is not the identity.
Hash(secret) == (secret * 5 + 2) % 7

InitiateCalls ==
    { [type |-> "InitiateBridgeTransfer", initiator_address |-> "a",
       recipient_address |-> "b", amount |-> 3,
       time_lock |-> 1, hash_lock |-> Hash(1)] }

CompleteCalls ==
    { [type |-> "CompleteBridgeTransfer", bridge_transfer_id |-> id, secret |-> s] :
        id \in CallerIds, s \in Secrets }

LockCalls ==
    { [type |-> "LockBridgeTransfer", bridge_transfer_id |-> 2,
       hash_lock |-> Hash(1), time_lock |-> 1,
       recipient_address |-> "b", amount |-> 3] }

\* enum Transaction { Initiator(InitiatorCall), Counterparty(CounterpartyCall) }
Transaction == InitiateCalls \cup CompleteCalls \cup LockCalls

\* ------------------------------------------------------------------- state
VARIABLES
    time,                  \* AbstractBlockchain.time
    accounts,              \* AbstractBlockchain.accounts : address -> amount
    events,                \* AbstractBlockchain.events : the event log (a Vec)
    initiater_contract,    \* pending transfers of the initiator contract: id -> details
    counterparty_contract, \* lock records of the counterparty contract: id -> details
    unique_hashes,         \* number of ids gen_unique_hash has produced
    transaction_receiver,  \* messages in flight in the transaction channel
    connections,           \* live clones of transaction_sender handed out
    sends,                 \* transactions submitted so far
    recv_task,             \* the channel holds the polling task's waker
    waker,                 \* AbstractBlockchain.waker holds the polling task's waker
    event_listeners,       \* AbstractBlockchain.event_listeners with their receivers
    driver,                \* "stream": polled through poll_next; "future": through poll
    scheduled,             \* the executor is about to poll the ledger's task
    last_poll,             \* what the last poll_next returned
    drained_poll,          \* the last poll began with all handles dropped, queue empty
    yielded,               \* events returned to the direct stream consumer, in order
    appended,              \* every event pushed to the log, in order
    registered,            \* ids under which the initiator contract stored transfers
    complete_result,       \* the last complete_bridge_transfer: its id, what it returned
    last_forward,          \* the last forward_time: the clock before, its duration, its end
    mempool,               \* Memseq.mempool: the transactions published and not yet popped
    published,             \* number of transactions published so far
    wait_call,             \* per caller: where its wait_for_next_block stands, its locals
    returned,              \* per caller: what its wait_for_next_block calls returned, in order
    bundle,                \* an AtomicTransactionBundle at hand
    bundle_origin,         \* the Transaction the bundle was converted from, if any (a set)
    converted              \* the last conversion: which, its input, its output

vars == << time, accounts, events, initiater_contract, counterparty_contract,
           unique_hashes, transaction_receiver, connections, sends, recv_task,
           waker, event_listeners, driver, scheduled, last_poll, drained_poll,
           yielded, appended, registered, complete_result, last_forward,
           mempool, published, wait_call, returned,
           bundle, bundle_origin, converted >>

types_vars == << bundle, bundle_origin, converted >>

memseq_vars == << mempool, published, wait_call, returned >>

\* Id::default(), the all-zero id, and the ids a run uses.
Ids == {0, 1}

\* AtomicTransactionBundle::default() at hand, nothing converted yet.
TypesNew ==
    /\ bundle = [sequencer_id |-> 0, transactions |-> << >>]
    /\ bundle_origin = {}
    /\ converted = [op |-> "none"]

\* Those who call wait_for_next_block on the one Memseq (it is Clone: callers share
\* the mempool).
Callers == {"w1", "w2"}

\* No call of wait_for_next_block in progress.
NoCall == [pc |-> "idle", transactions |-> << >>, obtained |-> 0, pops_left |-> 0,
           elapsed |-> 0, looked |-> 0, stocked |-> FALSE]

\* Memseq::new over an empty mempool, nothing called yet.
MemseqNew ==
    /\ mempool = {}
    /\ published = 0
    /\ wait_call = [w \in Callers |-> NoCall]
    /\ returned = [w \in Callers |-> << >>]

Range(s) == { s[i] : i \in 1..Len(s) }

\* ------------------------------------------------- contracts (from spec.md)
\* GenUniqueHash::gen_unique_hash (not among the source files): a fresh id on
\* every call; n is the number of ids produced before this call.
gen_unique_hash(n) == n + 1

\* SmartContractInitiator::initiate_bridge_transfer (spec.md 4.2): stores a
\* pending record under a freshly generated id and returns that id.
initiate_bridge_transfer(contract, n, call) ==
    LET id == gen_unique_hash(n)
        details == [bridge_transfer_id |-> id,
                    initiator_address |-> call.initiator_address,
                    recipient_address |-> call.recipient_address,
                    hash_lock |-> call.hash_lock,
                    time_lock |-> call.time_lock,
                    amount |-> call.amount]
    IN  [contract |-> (id :> details) @@ contract, unique_hashes |-> n + 1, id |-> id]

Balance(accts, address) == IF address \in DOMAIN accts THEN accts[address] ELSE 0

\* SmartContractInitiator::complete_bridge_transfer (spec.md 4.2), `now` being
\* the current time as the contract knows it.
complete_bridge_transfer(accts, contract, now, id, secret) ==
    IF id \notin DOMAIN contract
    THEN [result |-> "UnknownTransfer", accounts |-> accts, contract |-> contract]
    ELSE IF Hash(secret) # contract[id].hash_lock
    THEN [result |-> "InvalidSecret", accounts |-> accts, contract |-> contract]
    ELSE IF now > contract[id].time_lock
    THEN [result |-> "Expired", accounts |-> accts, contract |-> contract]
    ELSE LET to == contract[id].recipient_address
         IN  [result |-> "Ok",
              accounts |-> [a \in DOMAIN accts \cup {to} |->
                              IF a = to THEN Balance(accts, to) + contract[id].amount
                                        ELSE accts[a]],
              contract |-> [i \in DOMAIN contract \ {id} |-> contract[i]]]

\* SmartContractCounterparty::lock_bridge_transfer (spec.md 4.3): stores the
\* lock record under the caller's id; always succeeds.
lock_bridge_transfer(contract, call) ==
    (call.bridge_transfer_id :>
        [bridge_transfer_id |-> call.bridge_transfer_id,
         hash_lock |-> call.hash_lock,
         time_lock |-> call.time_lock,
         recipient_address |-> call.recipient_address,
         amount |-> call.amount]) @@ contract

\* ---------------------------------------------------------------- dispatch
\* The fields of the ledger a dispatch reads and writes.
Ledger ==
    [accounts |-> accounts, events |-> events,
     initiater_contract |-> initiater_contract,
     counterparty_contract |-> counterparty_contract,
     unique_hashes |-> unique_hashes, appended |-> appended,
     registered |-> registered, complete_result |-> complete_result]

\* The time the initiator contract sees in complete_bridge_transfer: the call
\* passes the accounts, the id and the secret and nothing else, and the contract is
\* built by SmartContractInitiator::new() with no clock, so forward_time never
\* reaches it.
ContractTime(s) == 0

\* dispatch_initiate with the event's id derived from the call's hash lock instead
\* of a fresh gen_unique_hash().
dispatch_initiate_content_id(s, call) ==
    LET r == initiate_bridge_transfer(s.initiater_contract, s.unique_hashes, call)
        event == [type |-> "BridgeTransferInitiated",
                  details |-> [bridge_transfer_id |-> call.hash_lock,
                               initiator_address |-> call.initiator_address,
                               recipient_address |-> call.recipient_address,
                               hash_lock |-> call.hash_lock,
                               time_lock |-> call.time_lock,
                               amount |-> call.amount]]
    IN  [s EXCEPT !.initiater_contract = r.contract,
                  !.unique_hashes = r.unique_hashes,
                  !.registered = Append(@, r.id),
                  !.events = Append(@, event),
                  !.appended = Append(@, event)]

\* dispatch_initiate taking the amount out of the initiator's balance.
dispatch_initiate_debits(s, call) ==
    LET r == initiate_bridge_transfer(s.initiater_contract, s.unique_hashes, call)
        event == [type |-> "BridgeTransferInitiated",
                  details |-> [bridge_transfer_id |-> gen_unique_hash(r.unique_hashes),
                               initiator_address |-> call.initiator_address,
                               recipient_address |-> call.recipient_address,
                               hash_lock |-> call.hash_lock,
                               time_lock |-> call.time_lock,
                               amount |-> call.amount]]
    IN  [s EXCEPT !.accounts =
                      [a \in DOMAIN s.accounts |->
                          IF a = call.initiator_address
                          THEN s.accounts[a] - call.amount ELSE s.accounts[a]],
                  !.initiater_contract = r.contract,
                  !.unique_hashes = r.unique_hashes + 1,
                  !.registered = Append(@, r.id),
                  !.events = Append(@, event),
                  !.appended = Append(@, event)]

\* poll_next, InitiatorCall::InitiateBridgeTransfer: the contract's returned id
\* is dropped, the event carries a second gen_unique_hash().
dispatch_initiate(s, call) ==
    LET r == initiate_bridge_transfer(s.initiater_contract, s.unique_hashes, call)
        event == [type |-> "BridgeTransferInitiated",
                  details |-> [bridge_transfer_id |-> gen_unique_hash(r.unique_hashes),
                               initiator_address |-> call.initiator_address,
                               recipient_address |-> call.recipient_address,
                               hash_lock |-> call.hash_lock,
                               time_lock |-> call.time_lock,
                               amount |-> call.amount]]
    IN  [s EXCEPT !.initiater_contract = r.contract,
                  !.unique_hashes = r.unique_hashes + 1,
                  !.registered = Append(@, r.id),
                  !.events = Append(@, event),
                  !.appended = Append(@, event)]

\* dispatch_complete handing the contract a clone of the accounts map instead of
\* &mut this.accounts.
dispatch_complete_cloned_accounts(s, call) ==
    LET r == complete_bridge_transfer(s.accounts, s.initiater_contract,
                                      ContractTime(s), call.bridge_transfer_id,
                                      call.secret)
    IN  [s EXCEPT !.initiater_contract = r.contract,
                  !.complete_result = [id |-> call.bridge_transfer_id, result |-> r.result]]

\* dispatch_complete taking the transfer out of the pending table before the
\* contract has validated the call.
dispatch_complete_remove_first(s, call) ==
    LET r == complete_bridge_transfer(s.accounts, s.initiater_contract,
                                      ContractTime(s), call.bridge_transfer_id,
                                      call.secret)
    IN  [s EXCEPT !.accounts = r.accounts,
                  !.initiater_contract =
                      [i \in DOMAIN r.contract \ {call.bridge_transfer_id} |-> r.contract[i]],
                  !.complete_result = [id |-> call.bridge_transfer_id, result |-> r.result]]

\* dispatch_complete pushing an event for the completion, as the other two
\* dispatches do for theirs.
dispatch_complete_with_event(s, call) ==
    LET r == complete_bridge_transfer(s.accounts, s.initiater_contract,
                                      ContractTime(s), call.bridge_transfer_id,
                                      call.secret)
    IN  [s EXCEPT !.accounts = r.accounts,
                  !.initiater_contract = r.contract,
                  !.complete_result = [id |-> call.bridge_transfer_id, result |-> r.result],
                  !.events = Append(@, [type |-> "Noop"]),
                  !.appended = Append(@, [type |-> "Noop"])]

\* poll_next, InitiatorCall::CompleteBridgeTransfer: the Result is dropped.
dispatch_complete(s, call) ==
    LET r == complete_bridge_transfer(s.accounts, s.initiater_contract,
                                      ContractTime(s), call.bridge_transfer_id,
                                      call.secret)
    IN  [s EXCEPT !.accounts = r.accounts,
                  !.initiater_contract = r.contract,
                  !.complete_result = [id |-> call.bridge_transfer_id, result |-> r.result]]

\* dispatch_lock with two fields of the same type taken for one another in the
\* event's LockDetails.
dispatch_lock_swapped(s, call) ==
    LET event == [type |-> "BridgeTransferAssetsLocked",
                  details |-> [bridge_transfer_id |-> call.bridge_transfer_id,
                               hash_lock |-> call.hash_lock,
                               time_lock |-> call.amount,
                               recipient_address |-> call.recipient_address,
                               amount |-> call.time_lock]]
    IN  [s EXCEPT !.counterparty_contract = lock_bridge_transfer(@, call),
                  !.events = Append(@, event),
                  !.appended = Append(@, event)]

\* poll_next, CounterpartyCall::LockBridgeTransfer.
dispatch_lock(s, call) ==
    LET event == [type |-> "BridgeTransferAssetsLocked",
                  details |-> [bridge_transfer_id |-> call.bridge_transfer_id,
                               hash_lock |-> call.hash_lock,
                               time_lock |-> call.time_lock,
                               recipient_address |-> call.recipient_address,
                               amount |-> call.amount]]
    IN  [s EXCEPT !.counterparty_contract = lock_bridge_transfer(@, call),
                  !.events = Append(@, event),
                  !.appended = Append(@, event)]

\* match transaction { ... }
dispatch(s, transaction) ==
    CASE transaction.type = "InitiateBridgeTransfer" -> dispatch_initiate(s, transaction)
      [] transaction.type = "CompleteBridgeTransfer" -> dispatch_complete(s, transaction)
      [] transaction.type = "LockBridgeTransfer" -> dispatch_lock(s, transaction)

\* ------------------------------------------------------- the transaction channel
\* Senders of the channel: the ledger's own transaction_sender, which lives as
\* long as the ledger, and the clones handed out by connection().
NumSenders == 1 + connections

\* UnboundedReceiver::poll_next on the transaction channel (futures mpsc): a
\* queued message, else end-of-stream once every sender is gone, else Pending
\* with the caller's waker stored in the channel.
receiver_poll(queue, senders) ==
    IF queue # <<>> THEN "Some"
    ELSE IF senders = 0 THEN "None"
    ELSE "Pending"

\* ------------------------------------------------------------------ fan-out
\* Index of the first listener whose receiver was dropped, 0 if all are open.
FirstClosed(listeners) ==
    IF \A i \in 1..Len(listeners) : listeners[i].open
    THEN 0
    ELSE CHOOSE i \in 1..Len(listeners) :
            /\ ~listeners[i].open
            /\ \A j \in 1..(i - 1) : listeners[j].open

\* emit reading the last event with last() instead of pop(): the log keeps it.
emit_keeps_log(log, listeners) ==
    IF log = <<>>
    THEN [result |-> "Pending", events |-> log, event_listeners |-> listeners]
    ELSE [result |-> "ReadySome", event |-> log[Len(log)], events |-> log,
          event_listeners |->
             [i \in 1..Len(listeners) |->
                [listeners[i] EXCEPT !.inbox = Append(@, log[Len(log)])]]]

\* The tail of poll_next: pop the last event, unbounded_send a clone to each
\* listener in registration order, expect() each send, return the event.
\* A send to a dropped receiver is an Err, and expect() panics there: the
\* listeners before it have the event, the ones after it and the caller do not.
emit(log, listeners) ==
    IF log = <<>>
    THEN [result |-> "Pending", events |-> log, event_listeners |-> listeners]
    ELSE LET event == log[Len(log)]
             rest == SubSeq(log, 1, Len(log) - 1)
             k == FirstClosed(listeners)
             upto == IF k = 0 THEN Len(listeners) ELSE k - 1
         IN  [result |-> IF k = 0 THEN "ReadySome" ELSE "Panicked",
              event |-> event,
              events |-> rest,
              event_listeners |->
                 [i \in 1..Len(listeners) |->
                    IF i <= upto
                    THEN [listeners[i] EXCEPT !.inbox = Append(@, event)]
                    ELSE listeners[i]]]

\* ------------------------------------------------------------------- Init
\* new() with a first Noop entry put in the event log.
Init_noop_logged ==
    /\ time = 0
    /\ accounts = << >>
    /\ events = << [type |-> "Noop"] >>
    /\ initiater_contract = << >>
    /\ counterparty_contract = << >>
    /\ unique_hashes = 0
    /\ transaction_receiver = << >>
    /\ connections = 0
    /\ sends = 0
    /\ recv_task = FALSE
    /\ waker = FALSE
    /\ event_listeners = << >>
    /\ driver \in {"stream", "future"}
    /\ scheduled = TRUE
    /\ last_poll = "None"
    /\ drained_poll = FALSE
    /\ yielded = << >>
    /\ appended = << [type |-> "Noop"] >>
    /\ registered = << >>
    /\ complete_result = [id |-> 0, result |-> "None"]
    /\ last_forward = [before |-> 0, duration |-> 0, panicked |-> FALSE]
    /\ MemseqNew
    /\ TypesNew

\* AbstractBlockchain::new, and the task that drives it spawned and due a first poll.
Init ==
    /\ time = 0
    /\ accounts = << >>
    /\ events = << >>
    /\ initiater_contract = << >>
    /\ counterparty_contract = << >>
    /\ unique_hashes = 0
    /\ transaction_receiver = << >>
    /\ connections = 0
    /\ sends = 0
    /\ recv_task = FALSE
    /\ waker = FALSE
    /\ event_listeners = << >>
    /\ driver \in {"stream", "future"}
    /\ scheduled = TRUE
    /\ last_poll = "None"
    /\ drained_poll = FALSE
    /\ yielded = << >>
    /\ appended = << >>
    /\ registered = << >>
    /\ complete_result = [id |-> 0, result |-> "None"]
    /\ last_forward = [before |-> 0, duration |-> 0, panicked |-> FALSE]
    /\ MemseqNew
    /\ TypesNew

\* The process is alive: no poll and no forward_time has panicked.
Running == last_poll # "Panicked" /\ ~last_forward.panicked

ledger_vars == << time, accounts, events, initiater_contract, counterparty_contract,
                  unique_hashes, appended, registered, complete_result, last_forward >>
channel_vars == << transaction_receiver, connections, sends, recv_task >>
poll_vars == << waker, driver, scheduled, last_poll, drained_poll, yielded >>

\* ---------------------------------------------------------------- actions
add_event_listener ==
    /\ Running
    /\ Len(event_listeners) < MaxListeners
    /\ event_listeners' =
          Append(event_listeners, [open |-> TRUE, inbox |-> << >>, since |-> Len(appended)])
    /\ UNCHANGED << memseq_vars, types_vars, ledger_vars, channel_vars, poll_vars >>

\* The holder of a listener's receiver drops it.
DropListener(i) ==
    /\ Running
    /\ event_listeners[i].open
    /\ event_listeners' = [event_listeners EXCEPT ![i].open = FALSE]
    /\ UNCHANGED << memseq_vars, types_vars, ledger_vars, channel_vars, poll_vars >>

\* The largest value of the clock (u64::MAX at the width modelled).
U64Max == 2 ^ ClockBits - 1

\* `self.time += duration` on a u64.  When the sum does not fit, a build with
\* overflow checks panics and leaves the clock as it was, a build without them
\* wraps around.
time_add(t, duration) ==
    IF t + duration <= U64Max
    THEN { [time |-> t + duration, panicked |-> FALSE] }
    ELSE { [time |-> t, panicked |-> TRUE],
           [time |-> (t + duration) % (U64Max + 1), panicked |-> FALSE] }

forward_time(duration) ==
    /\ Running
    /\ \E r \in time_add(time, duration) :
          /\ time' = r.time
          /\ last_forward' = [before |-> time, duration |-> duration,
                              panicked |-> r.panicked]
    /\ UNCHANGED << memseq_vars, types_vars, accounts, events, initiater_contract, counterparty_contract,
                    unique_hashes, appended, registered, complete_result,
                    channel_vars, poll_vars, event_listeners >>

\* forward_time within the span of time a run covers.
forward_time_bounded(duration) ==
    /\ time + duration <= MaxTime
    /\ forward_time(duration)

add_account(address, amount) ==
    /\ Running
    /\ accounts' = [a \in DOMAIN accounts \cup {address} |->
                      IF a = address THEN amount ELSE accounts[a]]
    /\ UNCHANGED << memseq_vars, types_vars, time, events, initiater_contract, counterparty_contract,
                    unique_hashes, appended, registered, complete_result, last_forward,
                    channel_vars, poll_vars, event_listeners >>

connection ==
    /\ Running
    /\ connections < MaxConnections
    /\ connections' = connections + 1
    /\ UNCHANGED << memseq_vars, types_vars, ledger_vars, transaction_receiver, sends, recv_task, poll_vars,
                    event_listeners >>

\* A producer drops its handle.  The drop of the channel's last sender wakes the
\* receiving task.
DropConnection ==
    /\ Running
    /\ connections > 0
    /\ connections' = connections - 1
    /\ IF NumSenders - 1 = 0 /\ recv_task
       THEN recv_task' = FALSE /\ scheduled' = TRUE
       ELSE UNCHANGED << recv_task, scheduled >>
    /\ UNCHANGED << memseq_vars, types_vars, ledger_vars, transaction_receiver, sends, waker, driver, last_poll,
                    drained_poll, yielded, event_listeners >>

\* A producer sends through its handle (UnboundedSender::unbounded_send): the
\* message is queued and the waker the channel holds, if any, is taken and woken.
Send(transaction) ==
    /\ Running
    /\ connections > 0
    /\ sends < MaxSends
    /\ sends' = sends + 1
    /\ transaction_receiver' = Append(transaction_receiver, transaction)
    /\ recv_task' = FALSE
    /\ scheduled' = (scheduled \/ recv_task)
    /\ UNCHANGED << memseq_vars, types_vars, ledger_vars, connections, waker, driver, last_poll, drained_poll,
                    yielded, event_listeners >>

\* after_receive taking everything that is queued instead of one message.
after_receive_drain(queue, rx) == << >>

\* after_receive taking the message queued last instead of the one queued first.
after_receive_newest(queue, rx) ==
    IF rx = "Some" THEN SubSeq(queue, 1, Len(queue) - 1) ELSE queue

\* The queue once `if let Poll::Ready(Some(transaction)) = poll_next_unpin(cx)` has
\* run: one message shorter if there was one.
after_receive(queue, rx) == IF rx = "Some" THEN Tail(queue) ELSE queue

\* Stream::poll_next, all of it but what the caller does with the result.
poll_next ==
    LET rx == receiver_poll(transaction_receiver, NumSenders)
        s == IF rx = "Some" THEN dispatch(Ledger, Head(transaction_receiver)) ELSE Ledger
        e == emit(s.events, event_listeners)
    IN  /\ transaction_receiver' = after_receive(transaction_receiver, rx)
        /\ recv_task' = (recv_task \/ rx = "Pending")
        /\ accounts' = s.accounts
        /\ initiater_contract' = s.initiater_contract
        /\ counterparty_contract' = s.counterparty_contract
        /\ unique_hashes' = s.unique_hashes
        /\ appended' = s.appended
        /\ registered' = s.registered
        /\ complete_result' = s.complete_result
        /\ events' = e.events
        /\ event_listeners' = e.event_listeners
        /\ waker' = (waker \/ e.result = "Pending")
        /\ last_poll' = e.result
        /\ drained_poll' = (connections = 0 /\ sends > 0 /\ transaction_receiver = << >>
                            /\ events = << >>)
        /\ UNCHANGED << memseq_vars, types_vars, time, last_forward, connections, sends, driver >>

\* The ledger polled as a Stream.  The consumer takes each event and asks for the
\* next, so a wake-up stays due after Ready(Some); after Pending none is due until
\* a stored waker is woken.
StreamPoll ==
    /\ Running
    /\ driver = "stream"
    /\ poll_next
    /\ scheduled' = (last_poll' = "ReadySome")
    /\ yielded' = IF last_poll' = "ReadySome"
                  THEN Append(yielded, appended'[Len(appended')])
                  ELSE yielded

\* Future::poll: Ready(None) => Ready(()), Pending | Ready(Some(_)) => Pending.
\* The event of a Ready(Some) is dropped and no wake-up is due after it.
FuturePoll ==
    /\ Running
    /\ driver = "future"
    /\ poll_next
    /\ scheduled' = FALSE
    /\ yielded' = yielded

\* The same polls made by an executor that polls a task only when it was woken.
WokenStreamPoll == scheduled /\ StreamPoll
WokenFuturePoll == scheduled /\ FuturePoll

\* Any caller may poll at any time: there are spurious polls.
Next ==
    \/ add_event_listener
    \/ \E i \in 1..Len(event_listeners) : DropListener(i)
    \/ \E d \in Durations : forward_time_bounded(d)
    \/ \E a \in Addresses, m \in Fundings : add_account(a, m)
    \/ connection
    \/ DropConnection
    \/ \E t \in Transaction : Send(t)
    \/ StreamPoll
    \/ FuturePoll

Spec == Init /\ [][Next]_vars

\* The ledger's task under an executor that polls only on a wake-up.
NextWoken ==
    \/ add_event_listener
    \/ \E i \in 1..Len(event_listeners) : DropListener(i)
    \/ connection
    \/ DropConnection
    \/ \E t \in Transaction : Send(t)
    \/ WokenStreamPoll
    \/ WokenFuturePoll

SpecWoken == Init /\ [][NextWoken]_vars

\* The contracts behind the ledger: one producer handle taken after construction,
\* the ledger polled as a stream, no listeners.
InitContract ==
    /\ time = 0
    /\ accounts = << >>
    /\ events = << >>
    /\ initiater_contract = << >>
    /\ counterparty_contract = << >>
    /\ unique_hashes = 0
    /\ transaction_receiver = << >>
    /\ connections = 1
    /\ sends = 0
    /\ recv_task = FALSE
    /\ waker = FALSE
    /\ event_listeners = << >>
    /\ driver = "stream"
    /\ scheduled = TRUE
    /\ last_poll = "None"
    /\ drained_poll = FALSE
    /\ yielded = << >>
    /\ appended = << >>
    /\ registered = << >>
    /\ complete_result = [id |-> 0, result |-> "None"]
    /\ last_forward = [before |-> 0, duration |-> 0, panicked |-> FALSE]
    /\ MemseqNew
    /\ TypesNew

NextContract ==
    \/ \E d \in Durations : forward_time_bounded(d)
    \/ \E a \in Addresses, m \in Fundings : add_account(a, m)
    \/ \E t \in Transaction : Send(t)
    \/ StreamPoll

SpecContract == InitContract /\ [][NextContract]_vars

\* ================================================================== memseq
\* Memseq: publish and wait_for_next_block over the shared mempool.  Both take the
\* RwLock's read lock, so neither excludes the other; every `.await` is a point
\* where the other callers run.
ledger_all == << ledger_vars, channel_vars, poll_vars, event_listeners, types_vars >>

\* As many transactions as fill the blocks of two calls.
MaxPublish == 2 * BlockSize

\* `0..self.block_size - current_block_size`: the pops of one round, counting every one.
pops_wanted_whole_block(len) == BlockSize

\* `0..self.block_size - current_block_size`: the pops of one round.
pops_wanted(len) == BlockSize - len

\* `now > finish_by` taken as true whatever the time.
window_over_at_once(elapsed) == TRUE

\* `now > finish_by`, with finish_by = start + building_time_ms.
window_over(elapsed) == elapsed > BuildingTime

\* MempoolTransactionOperations::add_transaction (the mempool is not among the
\* source files): the transaction is in the pool afterwards.
add_transaction(pool, transaction) == pool \cup {transaction}

\* The transaction a pool has held longest.
Oldest(pool) == CHOOSE t \in pool : \A u \in pool : t <= u

\* MempoolTransactionOperations::pop_transaction: Ok(None) from an empty pool,
\* Ok(Some(t)) for the oldest t of a pool that holds some, which it removes, or an
\* error of the storage under it.
pop_transaction(pool) ==
    { [kind |-> "Err", transaction |-> 0] } \cup
    ( IF pool = {}
      THEN { [kind |-> "None", transaction |-> 0] }
      ELSE { [kind |-> "Some", transaction |-> Oldest(pool)] } )

\* What a call hands back: Ok(Some(block)), Ok(None) or Err, with how many
\* transactions it popped, whether the mempool held two blocks' worth when it began
\* and whether it holds any as the call returns.
Result(kind, call) ==
    [kind |-> kind, transactions |-> call.transactions, obtained |-> call.obtained,
     stocked |-> call.stocked, leftover |-> mempool # {}]

\* Memseq::publish: add_transaction on the mempool.  Transactions are numbered in
\* the order they are published.
publish ==
    /\ published < MaxPublish
    /\ published' = published + 1
    /\ mempool' = add_transaction(mempool, published + 1)
    /\ UNCHANGED << wait_call, returned, ledger_all >>

\* wait_for_next_block up to the loop: an empty Vec, the clock read for finish_by.
wait_for_next_block(w) ==
    /\ wait_call[w].pc = "idle"
    /\ Len(returned[w]) < MaxCalls
    /\ wait_call' = [wait_call EXCEPT ![w] =
                        [NoCall EXCEPT !.pc = "loop",
                                       !.stocked = (Cardinality(mempool) >= 2 * BlockSize)]]
    /\ UNCHANGED << mempool, published, returned, ledger_all >>

\* The head of the loop: break when the block is full, else start a round of pops.
loop_head(w) ==
    /\ wait_call[w].pc = "loop"
    /\ LET call == wait_call[w]
       IN  wait_call' = [wait_call EXCEPT ![w] =
                            IF Len(call.transactions) >= BlockSize
                            THEN [call EXCEPT !.pc = "return"]
                            ELSE [call EXCEPT !.pc = "pop",
                                              !.pops_left =
                                                  pops_wanted(Len(call.transactions))]]
    /\ UNCHANGED << mempool, published, returned, ledger_all >>

\* pop_transaction returns Ok(Some(transaction)): it is pushed, the round goes on
\* until its count is used up.
pop_some(w, transaction) ==
    /\ wait_call[w].pc = "pop"
    /\ [kind |-> "Some", transaction |-> transaction] \in pop_transaction(mempool)
    /\ mempool' = mempool \ {transaction}
    /\ LET call == wait_call[w]
       IN  wait_call' = [wait_call EXCEPT ![w] =
                            [call EXCEPT !.transactions = Append(@, transaction),
                                         !.obtained = @ + 1,
                                         !.pops_left = @ - 1,
                                         !.looked = published,
                                         !.pc = IF call.pops_left = 1
                                                THEN "sleep" ELSE "pop"]]
    /\ UNCHANGED << published, returned, ledger_all >>

\* pop_transaction returns Ok(None): the round breaks.
pop_none(w) ==
    /\ wait_call[w].pc = "pop"
    /\ [kind |-> "None", transaction |-> 0] \in pop_transaction(mempool)
    /\ wait_call' = [wait_call EXCEPT ![w].pc = "sleep", ![w].looked = published]
    /\ UNCHANGED << mempool, published, returned, ledger_all >>

\* pop_transaction returns Err: `?` ends the call with it, the Vec is dropped.
pop_err(w) ==
    /\ wait_call[w].pc = "pop"
    /\ [kind |-> "Err", transaction |-> 0] \in pop_transaction(mempool)
    /\ returned' = [returned EXCEPT ![w] =
                       Append(@, Result("Err", [wait_call[w] EXCEPT !.transactions = << >>]))]
    /\ wait_call' = [wait_call EXCEPT ![w] = NoCall]
    /\ UNCHANGED << mempool, published, ledger_all >>

\* tokio::time::sleep(1 ms), then the clock read again and compared with finish_by.
\* The sleep lasts a millisecond or more.
sleep(w, ms) ==
    /\ wait_call[w].pc = "sleep"
    /\ LET call == wait_call[w]
       IN  wait_call' = [wait_call EXCEPT ![w] =
                            [call EXCEPT !.elapsed = @ + ms,
                                         !.pc = IF window_over(call.elapsed + ms)
                                                THEN "return" ELSE "loop"]]
    /\ UNCHANGED << mempool, published, returned, ledger_all >>

\* After the loop: Ok(None) for an empty Vec, else Ok(Some(Block::new(..))).
return_block(w) ==
    /\ wait_call[w].pc = "return"
    /\ returned' = [returned EXCEPT ![w] =
                       Append(@, Result(IF wait_call[w].transactions = << >>
                                        THEN "None" ELSE "Some", wait_call[w]))]
    /\ wait_call' = [wait_call EXCEPT ![w] = NoCall]
    /\ UNCHANGED << mempool, published, ledger_all >>

\* The lengths a sleep may be found to have lasted within the window and just past it.
SleepLengths(w) == 1..(BuildingTime + 1 - wait_call[w].elapsed)

\* The steps a call makes when the mempool answers (the runtime resumes a task whose
\* await is ready).
WaitProgress(w) ==
    \/ loop_head(w)
    \/ \E transaction \in mempool : pop_some(w, transaction)
    \/ pop_none(w)
    \/ \E ms \in SleepLengths(w) : sleep(w, ms)
    \/ return_block(w)

\* One caller of wait_for_next_block, any number of publishers.
NextMemseq ==
    \/ publish
    \/ wait_for_next_block("w1")
    \/ loop_head("w1")
    \/ \E transaction \in mempool : pop_some("w1", transaction)
    \/ pop_none("w1")
    \/ pop_err("w1")
    \/ \E ms \in SleepLengths("w1") : sleep("w1", ms)
    \/ return_block("w1")

SpecMemseq == InitContract /\ [][NextMemseq]_vars

\* The same under a runtime that keeps running the caller's task.
SpecMemseqFair == SpecMemseq /\ WF_vars(WaitProgress("w1"))

\* Several callers of wait_for_next_block on clones of the one Memseq, any number
\* of publishers.
NextMemseqShared ==
    \/ publish
    \/ \E w \in Callers : wait_for_next_block(w)
    \/ \E w \in Callers : loop_head(w)
    \/ \E w \in Callers : \E transaction \in mempool : pop_some(w, transaction)
    \/ \E w \in Callers : pop_none(w)
    \/ \E w \in Callers : pop_err(w)
    \/ \E w \in Callers : \E ms \in SleepLengths(w) : sleep(w, ms)
    \/ \E w \in Callers : return_block(w)

SpecMemseqShared == InitContract /\ [][NextMemseqShared]_vars

\* ========================================================= movement-types
\* movement_types::Transaction { data, sequence_number }, over a few byte strings.
MovementTransactions ==
    [data : {<< >>, <<0>>, <<1>>}, sequence_number : {0, 1}]

\* TransactionEntry { consumer_id, data }.
TransactionEntries == [consumer_id : Ids, data : MovementTransactions]

MaxEntries == 2

\* Vec<TransactionEntry> of up to MaxEntries entries.
EntryVecs == UNION { [1..n -> TransactionEntries] : n \in 0..MaxEntries }

\* AtomicTransactionBundle { sequencer_id, transactions }.
Bundles == [sequencer_id : Ids, transactions : EntryVecs]

\* try_from accepting every bundle that is not empty.
try_from_first_entry(value) ==
    IF Len(value.transactions) >= 1
    THEN [ok |-> TRUE, value |-> value.transactions[1].data]
    ELSE [ok |-> FALSE,
          value |-> "AtomicTransactionBundle must contain exactly one transaction"]

\* impl TryFrom<AtomicTransactionBundle> for Transaction.
try_from(value) ==
    IF Len(value.transactions) = 1
    THEN [ok |-> TRUE, value |-> value.transactions[1].data]
    ELSE [ok |-> FALSE,
          value |-> "AtomicTransactionBundle must contain exactly one transaction"]

\* impl From<Transaction> for AtomicTransactionBundle.
from(transaction) ==
    [sequencer_id |-> 0,
     transactions |-> << [consumer_id |-> 0, data |-> transaction] >>]

\* A bundle received from elsewhere is at hand.
InitTypes ==
    /\ time = 0
    /\ accounts = << >>
    /\ events = << >>
    /\ initiater_contract = << >>
    /\ counterparty_contract = << >>
    /\ unique_hashes = 0
    /\ transaction_receiver = << >>
    /\ connections = 1
    /\ sends = 0
    /\ recv_task = FALSE
    /\ waker = FALSE
    /\ event_listeners = << >>
    /\ driver = "stream"
    /\ scheduled = TRUE
    /\ last_poll = "None"
    /\ drained_poll = FALSE
    /\ yielded = << >>
    /\ appended = << >>
    /\ registered = << >>
    /\ complete_result = [id |-> 0, result |-> "None"]
    /\ last_forward = [before |-> 0, duration |-> 0, panicked |-> FALSE]
    /\ MemseqNew
    /\ bundle \in Bundles
    /\ bundle_origin = {}
    /\ converted = [op |-> "none"]

types_frame == << ledger_vars, channel_vars, poll_vars, event_listeners, memseq_vars >>

\* Transaction::try_from(bundle) on the bundle at hand (it takes the bundle by value).
TryFromBundle ==
    /\ converted' = [op |-> "try_from", input |-> bundle, origin |-> bundle_origin,
                     output |-> try_from(bundle)]
    /\ UNCHANGED << bundle, bundle_origin, types_frame >>

\* AtomicTransactionBundle::from(transaction): the result is the bundle at hand.
FromTransaction(transaction) ==
    /\ bundle' = from(transaction)
    /\ bundle_origin' = {transaction}
    /\ converted' = [op |-> "from", input |-> transaction, origin |-> {},
                     output |-> bundle']
    /\ UNCHANGED types_frame

NextTypes ==
    \/ TryFromBundle
    \/ \E transaction \in MovementTransactions : FromTransaction(transaction)

SpecTypes == InitTypes /\ [][NextTypes]_vars

\* ================================================================== claims
\* The ids carried by the BridgeTransferInitiated events pushed so far, in order.
InitiatedEvents == SelectSeq(appended, LAMBDA e : e.type = "BridgeTransferInitiated")

\* C1: polled as a stream, the ledger delivers every event pushed to the log, in
\* the order of the pushes, to the direct consumer, and to every listener whose
\* receiver is alive exactly the events pushed since it was registered.
C1_DeliveredInOrder ==
    driver = "stream" =>
        /\ yielded = appended
        /\ \A i \in 1..Len(event_listeners) :
              event_listeners[i].open =>
                 event_listeners[i].inbox =
                    SubSeq(appended, event_listeners[i].since + 1, Len(appended))

\* C2: a poll that starts after every producer handle was dropped, with the queue
\* drained, returns Ready(None).
C2_CompletesWhenDrained == drained_poll => last_poll = "ReadyNone"

\* C3: no poll aborts, whatever listeners' receivers were dropped.
C3_ClosedListenerNoAbort == last_poll # "Panicked"

\* C4: under an executor that polls on wake-ups only, a transaction that is in the
\* queue after poll_next returned Pending has a wake-up due.
C4_PendingIsWoken ==
    (driver = "stream" /\ last_poll = "Pending" /\ transaction_receiver # << >>)
        => scheduled

\* C5: driven as a Future under an executor that polls on wake-ups only, a
\* transaction that is in the queue after a poll that produced an event has a
\* wake-up due.
C5_FutureKeepsPolling ==
    (driver = "future" /\ last_poll = "ReadySome" /\ transaction_receiver # << >>)
        => scheduled

\* This step is a poll that takes a CompleteBridgeTransfer off the queue and
\* dispatches it (polls are the only steps that shorten the queue).
DispatchesComplete ==
    /\ transaction_receiver # << >>
    /\ Head(transaction_receiver).type = "CompleteBridgeTransfer"
    /\ transaction_receiver' = Tail(transaction_receiver)

CompleteId == Head(transaction_receiver).bridge_transfer_id
CompleteSecret == Head(transaction_receiver).secret
IsPending(id) == id \in DOMAIN initiater_contract
SecretOpens(id) == Hash(CompleteSecret) = initiater_contract[id].hash_lock

\* C6: the dispatch of a completion of a pending transfer with the right secret,
\* at a time at or before its time lock, succeeds, adds the transfer's amount to
\* the recipient's balance, leaves every other balance as it was and takes the
\* transfer out of the pending table; the dispatch of a completion of a transfer
\* completed before returns UnknownTransfer and leaves the accounts as they were.
C6_CompletionCreditsOnce ==
    [][ /\ (DispatchesComplete /\ IsPending(CompleteId) /\ SecretOpens(CompleteId)
              /\ time <= initiater_contract[CompleteId].time_lock)
           => LET d == initiater_contract[CompleteId]
              IN  /\ complete_result'.result = "Ok"
                  /\ DOMAIN accounts' = DOMAIN accounts \cup {d.recipient_address}
                  /\ accounts'[d.recipient_address] =
                        Balance(accounts, d.recipient_address) + d.amount
                  /\ \A a \in DOMAIN accounts \ {d.recipient_address} :
                        accounts'[a] = accounts[a]
                  /\ CompleteId \notin DOMAIN initiater_contract'
        /\ (DispatchesComplete /\ CompleteId \in Range(registered)
              /\ ~IsPending(CompleteId))
           => /\ complete_result'.result = "UnknownTransfer"
              /\ accounts' = accounts ]_vars

\* A transfer was completed, and a later completion was refused as unknown.
C6_Witness ==
    /\ complete_result.id \in Range(registered)
    /\ complete_result.result = "UnknownTransfer"
    /\ "b" \in DOMAIN accounts

\* C7: the dispatch of a completion of a pending transfer with the right secret
\* when the ledger's time is past the transfer's time lock returns Expired and
\* leaves the accounts as they were.
C7_ExpiredPastTimeLock ==
    [][ (DispatchesComplete /\ IsPending(CompleteId) /\ SecretOpens(CompleteId)
           /\ time > initiater_contract[CompleteId].time_lock)
        => (complete_result'.result = "Expired" /\ accounts' = accounts) ]_vars

\* C8: a dispatched completion that fails leaves the accounts and the pending
\* table as they were, and a completion of a pending transfer with a secret
\* that does not hash to its hash lock fails with InvalidSecret.
C8_FailedCompletionChangesNothing ==
    [][ /\ (DispatchesComplete
              /\ complete_result'.result \in {"UnknownTransfer", "InvalidSecret", "Expired"})
           => (accounts' = accounts /\ initiater_contract' = initiater_contract)
        /\ (DispatchesComplete /\ IsPending(CompleteId) /\ ~SecretOpens(CompleteId))
           => (complete_result'.result = "InvalidSecret"
               /\ CompleteId \in DOMAIN initiater_contract') ]_vars

\* A completion with the wrong secret was refused and its transfer is pending.
C8_Witness ==
    /\ complete_result.result = "InvalidSecret"
    /\ complete_result.id \in DOMAIN initiater_contract
    /\ accounts # << >>

\* C9: the id in every BridgeTransferInitiated event is the id under which the
\* initiator contract stored the transfer of that initiation.
C9_EventCarriesRegisteredId ==
    \A i \in 1..Len(InitiatedEvents) :
        InitiatedEvents[i].details.bridge_transfer_id = registered[i]

\* C10: two different initiations never share an id, neither among the ids the
\* contract stored, nor among the ids the events carry, nor between the two.
C10_TransferIdsDistinct ==
    \A i, j \in 1..Len(registered) :
        i # j =>
            /\ registered[i] # registered[j]
            /\ InitiatedEvents[i].details.bridge_transfer_id
                  # InitiatedEvents[j].details.bridge_transfer_id
            /\ registered[i] # InitiatedEvents[j].details.bridge_transfer_id

\* Two initiations with the same arguments were dispatched.
C10_Witness ==
    /\ Len(registered) >= 2
    /\ InitiatedEvents[1].details.hash_lock = InitiatedEvents[2].details.hash_lock
    /\ InitiatedEvents[1].details.amount = InitiatedEvents[2].details.amount

\* ------------------------------------------------------------------ the clock
\* The ledger of SpecContract with its clock driven over the whole range of its
\* type.
NextClock ==
    \/ \E d \in {1, U64Max} : forward_time(d)
    \/ \E a \in Addresses, m \in Fundings : add_account(a, m)
    \/ \E t \in Transaction : Send(t)
    \/ StreamPoll

SpecClock == InitContract /\ [][NextClock]_vars

\* C11: every forward_time(d) returns with the clock exactly d later than it was,
\* whatever the clock and d are, so the clock never goes back; and no other step
\* changes the clock.
C11_ClockAdvancesExactly ==
    [][ IF last_forward' # last_forward
        THEN time' = time + last_forward'.duration /\ ~last_forward'.panicked
        ELSE time' = time ]_vars

\* C13: a dispatched completion that the contract refuses shows in what the ledger
\* hands back: in the result of the poll or in an event pushed to the log.
C13_FailureReachesCaller ==
    [][ (DispatchesComplete
           /\ complete_result'.result \in {"UnknownTransfer", "InvalidSecret", "Expired"})
        => (last_poll' # "Pending" \/ appended' # appended) ]_vars

\* AbstractBlockchain::new leaves nothing in the ledger.
EmptyLedger ==
    /\ time = 0
    /\ accounts = << >>
    /\ initiater_contract = << >>
    /\ counterparty_contract = << >>
    /\ events = << >>
    /\ event_listeners = << >>
    /\ transaction_receiver = << >>

\* C16: a run starts with the ledger that new() built, which is empty: time 0, no
\* account, no pending transfer, no lock record, no event, no listener, nothing
\* queued.
C16_NewLedgerEmpty == EmptyLedger /\ [][TRUE]_vars

\* The empty ledger, before anything was sent to it or asked of it.
C16_Witness == EmptyLedger /\ sends = 0 /\ connections = 0 /\ last_poll = "None"

\* C17: a step takes at most one transaction off the queue, the one at its head,
\* leaving the others in their order, and pushes at most one event to the log.
C17_OnePerPoll ==
    [][ /\ Len(transaction_receiver') >= Len(transaction_receiver) - 1
        /\ Len(transaction_receiver') < Len(transaction_receiver)
              => transaction_receiver' = Tail(transaction_receiver)
        /\ Len(appended') <= Len(appended) + 1 ]_vars

\* A poll dispatched one transaction and left two in the queue.
C17_Witness ==
    /\ sends = 3
    /\ Len(transaction_receiver) = 2
    /\ Len(appended) = 1
    /\ last_poll = "ReadySome"

\* C18: a poll that has an event in the log at its emit step takes the last one
\* out of the log and leaves the older ones, sends it to every registered listener
\* and returns it as Ready(Some(event)).
C18_EmitsLastEvent ==
    [][ Len(appended') > Len(appended) =>
          LET event == appended'[Len(appended')]
          IN  /\ last_poll' = "ReadySome"
              /\ events' = events
              /\ Len(event_listeners') = Len(event_listeners)
              /\ \A i \in 1..Len(event_listeners) :
                    event_listeners'[i].inbox = Append(event_listeners[i].inbox, event)
              /\ driver = "stream" => yielded' = Append(yielded, event) ]_vars

\* C19: the dispatch of a CompleteBridgeTransfer pushes no event and sends
\* nothing to any listener, and with the log empty its poll returns Pending.
C19_CompletionEmitsNothing ==
    [][ DispatchesComplete =>
          /\ appended' = appended
          /\ event_listeners' = event_listeners
          /\ events = << >> => last_poll' = "Pending" ]_vars

\* A completion was dispatched with a listener registered; the poll was Pending.
C19_Witness ==
    /\ complete_result.result \in {"Ok", "UnknownTransfer", "InvalidSecret"}
    /\ Len(event_listeners) >= 1
    /\ last_poll = "Pending"

\* This step is a poll that takes a LockBridgeTransfer off the queue and
\* dispatches it.
DispatchesLock ==
    /\ transaction_receiver # << >>
    /\ Head(transaction_receiver).type = "LockBridgeTransfer"
    /\ transaction_receiver' = Tail(transaction_receiver)

\* C20: the dispatch of LockBridgeTransfer(id, hash_lock, time_lock, recipient,
\* amount) stores a lock record under id in the counterparty contract and pushes
\* exactly one BridgeTransferAssetsLocked event whose LockDetails are the five
\* arguments.
C20_LockStoresAndEmits ==
    [][ DispatchesLock =>
          LET call == Head(transaction_receiver)
              details == [bridge_transfer_id |-> call.bridge_transfer_id,
                          hash_lock |-> call.hash_lock,
                          time_lock |-> call.time_lock,
                          recipient_address |-> call.recipient_address,
                          amount |-> call.amount]
          IN  /\ call.bridge_transfer_id \in DOMAIN counterparty_contract'
              /\ counterparty_contract'[call.bridge_transfer_id] = details
              /\ appended' = Append(appended, [type |-> "BridgeTransferAssetsLocked",
                                               details |-> details]) ]_vars

\* A lock was dispatched: its record is stored and its event was pushed.
C20_Witness ==
    /\ counterparty_contract # << >>
    /\ \E i \in 1..Len(appended) : appended[i].type = "BridgeTransferAssetsLocked"


\* What the one caller's wait_for_next_block calls have returned.
Blocks == returned["w1"]

PartialReturns ==
    { i \in 1..Len(Blocks) :
        Blocks[i].kind # "Err" /\ Len(Blocks[i].transactions) < BlockSize }

\* The caller's call returns a value short of a full block in this step.
ReturnsPartial ==
    /\ Len(returned'["w1"]) > Len(Blocks)
    /\ Len(Blocks) + 1 \in PartialReturns'

\* C15 as stated: a call that returns fewer than block_size transactions returns
\* with every transaction published until then: none is left in the mempool when
\* it returns.
C15_ReturnsAllPublishedSoFar == \A i \in PartialReturns : ~Blocks[i].leftover

\* C15, amended: a call of wait_for_next_block whose task keeps being run ends; it
\* pops nothing more once it holds block_size transactions; and a call that returns
\* fewer than block_size transactions returns once the window has elapsed, with
\* nothing left in the mempool that was published before its last look into it
\* (what was published after that look stays for the next call).
C15_ReturnsByWindow ==
    /\ (wait_call["w1"].pc # "idle") ~> (wait_call["w1"].pc = "idle")
    /\ [](wait_call["w1"].pc = "pop" => Len(wait_call["w1"].transactions) < BlockSize)
    /\ [][ReturnsPartial =>
            /\ wait_call["w1"].elapsed > BuildingTime
            /\ \A transaction \in mempool : transaction > wait_call["w1"].looked]_vars

\* A partial block was returned while a transaction published during the call's last
\* sleep waited in the mempool.
C15_Witness ==
    \E i \in PartialReturns :
        /\ Blocks[i].kind = "Some"
        /\ Blocks[i].leftover

\* C21: driven as a Future, which drops the events its polls produce, the ledger
\* has sent to every listener whose receiver is alive a clone of every event pushed
\* since that listener was registered, whatever the other listeners' inboxes hold.
C21_FutureFeedsListeners ==
    driver = "future" =>
        \A i \in 1..Len(event_listeners) :
            event_listeners[i].open =>
                event_listeners[i].inbox =
                    SubSeq(appended, event_listeners[i].since + 1, Len(appended))


\* C22: Transaction::try_from succeeds exactly on the bundles of one entry, and on
\* the bundle AtomicTransactionBundle::from made of a Transaction it returns that
\* Transaction.
C22_BundleRoundTrip ==
    converted.op = "try_from" =>
        /\ converted.output.ok <=> Len(converted.input.transactions) = 1
        /\ \A transaction \in converted.origin :
              converted.output = [ok |-> TRUE, value |-> transaction]

\* A Transaction has gone into a bundle and back.
C22_Witness ==
    /\ converted.op = "try_from"
    /\ converted.origin = { [data |-> <<1>>, sequence_number |-> 1] }
    /\ converted.output.ok

\* C23: with the log touched by polls alone, the log is empty whenever a poll has
\* returned: a poll pushes one event at most, and the poll that pushes an event
\* returns that event (to the consumer of the stream, if it is polled as one) and
\* leaves the log empty.
C23_LogEmptyAfterPoll ==
    /\ [](last_poll # "Panicked" => events = << >>)
    /\ [][ (Len(appended') > Len(appended) /\ last_poll' # "Panicked") =>
              /\ Len(appended') = Len(appended) + 1
              /\ last_poll' = "ReadySome"
              /\ driver = "stream" => yielded' = Append(yielded, appended'[Len(appended')])
              /\ events' = << >> ]_vars

\* Two polls have each pushed and returned an event.
C23_Witness ==
    /\ Len(appended) = 2
    /\ yielded = appended
    /\ last_poll = "ReadySome"
    /\ events = << >>

\* This step takes the transaction at the head of the inbound queue.
TakesHead ==
    /\ transaction_receiver # << >>
    /\ transaction_receiver' = Tail(transaction_receiver)

\* This step changes what only a dispatch changes.
DispatchEffect ==
    \/ initiater_contract' # initiater_contract
    \/ counterparty_contract' # counterparty_contract
    \/ appended' # appended
    \/ registered' # registered
    \/ complete_result' # complete_result

\* This step carries out the call `call`.
Dispatched(call) ==
    LET pushed == appended'[Len(appended')].details
    IN  CASE call.type = "InitiateBridgeTransfer" ->
               /\ Len(appended') = Len(appended) + 1
               /\ appended'[Len(appended')].type = "BridgeTransferInitiated"
               /\ pushed.initiator_address = call.initiator_address
               /\ pushed.hash_lock = call.hash_lock
               /\ Len(registered') = Len(registered) + 1
          [] call.type = "LockBridgeTransfer" ->
               /\ Len(appended') = Len(appended) + 1
               /\ appended'[Len(appended')].type = "BridgeTransferAssetsLocked"
               /\ pushed.bridge_transfer_id = call.bridge_transfer_id
               /\ registered' = registered
          [] call.type = "CompleteBridgeTransfer" ->
               /\ appended' = appended
               /\ registered' = registered
               /\ complete_result'.id = call.bridge_transfer_id

AddsAccount ==
    /\ \E address \in Addresses, amount \in Fundings :
          accounts' = [a \in DOMAIN accounts \cup {address} |->
                          IF a = address THEN amount ELSE accounts[a]]
    /\ transaction_receiver' = transaction_receiver
    /\ ~DispatchEffect

\* C25: the dispatch of an InitiateBridgeTransfer or of a LockBridgeTransfer leaves
\* every balance as it was, the initiator's too; the accounts change only in the
\* dispatch of a CompleteBridgeTransfer that succeeds and in add_account.
C25_OnlyCompletionMovesBalances ==
    [][ /\ (TakesHead /\ Head(transaction_receiver).type # "CompleteBridgeTransfer")
           => accounts' = accounts
        /\ accounts' # accounts =>
              \/ DispatchesComplete /\ complete_result'.result = "Ok"
              \/ AddsAccount ]_vars

\* The initiator was funded and its transfer was initiated and locked: it holds
\* what it was funded with.
C25_Witness ==
    /\ "a" \in DOMAIN accounts
    /\ accounts["a"] = 5
    /\ Len(appended) = 2
    /\ appended[1].type = "BridgeTransferInitiated"
    /\ appended[1].details.initiator_address = "a"
    /\ appended[2].type = "BridgeTransferAssetsLocked"

\* C26: every transaction a call of wait_for_next_block popped from the mempool is
\* in the block that call returned, also when a later pop of the call failed, and
\* no transaction is in two returned blocks or twice in one.
C26_NoTransactionLostOrDuplicated ==
    /\ \A w \in Callers : \A i \in 1..Len(returned[w]) :
          LET block == returned[w][i].transactions
          IN  /\ returned[w][i].obtained = Len(block)
              /\ \A j, k \in 1..Len(block) : block[j] = block[k] => j = k
    /\ \A w, v \in Callers : \A i \in 1..Len(returned[w]), j \in 1..Len(returned[v]) :
          (w # v \/ i # j) =>
              Range(returned[w][i].transactions) \cap Range(returned[v][j].transactions) = {}
====
